---------------------------- MODULE Spec2Model ----------------------------
(***************************************************************************)
(* A model of diluvian/regions.py: DenseRegion, the flood-filling region   *)
(* that grows a mask from a seed by repeatedly dequeuing a lattice         *)
(* position, predicting a block around it and blending the prediction into *)
(* the mask (add_mask), which scores the six neighbouring moves            *)
(* (get_moves) and enqueues the qualifying ones.                           *)
(*                                                                         *)
(* Mask values are exact multiples of 0.05, written as integers 0..20      *)
(* (10 is the literal 0.5 of add_mask, 20 is 1.0); NaN is the unknown      *)
(* marker.  Voxels, positions and shapes are triples <<x, y, z>>; an array  *)
(* of a given shape is the sequence of its elements in C order.            *)
(***************************************************************************)
EXTENDS Integers, Sequences, FiniteSets, TLC

\* ------------------------------------------------------------ bounds
MaxBatch == 2     \* move_batch_size ranges over 1..MaxBatch
MaxBudget == 1    \* max_moves ranges over None and 0..MaxBudget
MaxPad == 2       \* multi_gpu_pad_kludge ranges over None and 1..MaxPad
MaxFills == 2     \* number of fill calls made on the region
MaxPos == 3       \* pos_to_vox is called with coordinates in -MaxPos..MaxPos
MaxCalls == 2     \* number of add_mask calls a caller makes directly

\* ------------------------------------------------------------ values
NaN == -1         \* np.NAN, the unknown marker of the mask
Half == 10        \* the literal 0.5 of add_mask
One == 2 * Half   \* 1.0
None == -99       \* Python's None (in Python 2 it orders below every number)

IsNaN(x) == x = NaN

\* IEEE comparisons: every comparison with NaN is false.
Greater(a, b) == (~IsNaN(a)) /\ (~IsNaN(b)) /\ a > b
Less(a, b) == (~IsNaN(a)) /\ (~IsNaN(b)) /\ a < b
GreaterEqual(a, b) == (~IsNaN(a)) /\ (~IsNaN(b)) /\ a >= b

Axes == 1..3

\* ----------------------------------------------- triples, arrays, slices
AddV(a, b) == <<a[1] + b[1], a[2] + b[2], a[3] + b[3]>>
SubV(a, b) == <<a[1] - b[1], a[2] - b[2], a[3] - b[3]>>
MulV(a, b) == <<a[1] * b[1], a[2] * b[2], a[3] * b[3]>>
DivV(a, b) == <<a[1] \div b[1], a[2] \div b[2], a[3] \div b[3]>>
Splat(n) == <<n, n, n>>

\* The index set of an array of the given shape.
Box(shape) == (0..(shape[1] - 1)) \X (0..(shape[2] - 1)) \X (0..(shape[3] - 1))

\* Arrays are stored in C order: the number of elements, the place of the
\* element at index v, and the index of the element at place k.
Size(shape) == shape[1] * shape[2] * shape[3]
Idx(v, shape) == (v[1] * shape[2] + v[2]) * shape[3] + v[3] + 1
Coord(k, shape) ==
    << (k - 1) \div (shape[2] * shape[3]),
       ((k - 1) \div shape[3]) % shape[2],
       (k - 1) % shape[3] >>

\* One axis of a basic numpy slice a[lo:hi] of an axis of length n: a
\* negative bound counts from the end, and both are clipped to 0..n.
ClipIndex(k, n) ==
    LET w == IF k < 0 THEN k + n ELSE k
    IN  IF w < 0 THEN 0 ELSE IF w > n THEN n ELSE w

SliceStart(lo, n) == ClipIndex(lo, n)

SliceLen(lo, hi, n) ==
    LET s == ClipIndex(lo, n)
        e == ClipIndex(hi, n)
    IN  IF e > s THEN e - s ELSE 0

\* Shape and first index of a[lo[1]:hi[1], lo[2]:hi[2], lo[3]:hi[3]].
SliceShape(lo, hi, shape) ==
    << SliceLen(lo[1], hi[1], shape[1]), SliceLen(lo[2], hi[2], shape[2]),
       SliceLen(lo[3], hi[3], shape[3]) >>
SliceOrigin(lo, shape) ==
    << SliceStart(lo[1], shape[1]), SliceStart(lo[2], shape[2]),
       SliceStart(lo[3], shape[3]) >>

\* The maximum of a set of values as ndarray.max() computes it: NaN if any
\* element is NaN.  (An empty slice makes .max() raise; no call of the
\* model takes one.)
ArrayMax(vals) ==
    IF \E v \in vals : IsNaN(v) THEN NaN
    ELSE CHOOSE m \in vals : \A v \in vals : v <= m

\* ------------------------------------------------------- coordinates
\* MOVE_DELTA = (CONFIG.model.block_size - 1) / 4   (integer division)
MoveDelta(block_size) == DivV(SubV(block_size, Splat(1)), Splat(4))

\* margin = (CONFIG.model.block_size - 1) / 2
Margin(block_size) == DivV(SubV(block_size, Splat(1)), Splat(2))

\* A slip: the quotient rounded up instead of down.
VoxToPosCeiling(vox, block_size) ==
    LET d == MoveDelta(block_size)
    IN  << 0 - ((0 - vox[1]) \div d[1]), 0 - ((0 - vox[2]) \div d[2]),
           0 - ((0 - vox[3]) \div d[3]) >>

\* np.floor_divide(vox, self.MOVE_DELTA)
vox_to_pos(vox, block_size) == DivV(vox, MoveDelta(block_size))

pos_to_vox(pos, block_size) == MulV(pos, MoveDelta(block_size))

\* self.move_bounds = self.vox_to_pos(self.bounds) - 1
MoveBounds(shape, block_size) == SubV(vox_to_pos(shape, block_size), Splat(1))

\* seed_pos = np.floor_divide(self.move_bounds, 2) + 1
DefaultSeed(shape, block_size) ==
    AddV(DivV(MoveBounds(shape, block_size), Splat(2)), Splat(1))

\* ------------------------------------------------------------ the queue
\* Python 2 ordering of two priorities: None is below every number.
PyLess(a, b) == IF a = None THEN b # None ELSE (b # None /\ a < b)

LexLess(p, q) ==
    \/ p[1] < q[1]
    \/ p[1] = q[1] /\ p[2] < q[2]
    \/ p[1] = q[1] /\ p[2] = q[2] /\ p[3] < q[3]

\* Tuple comparison of two queue entries <<priority, position>>.
EntryLess(e, f) ==
    \/ PyLess(e[1], f[1])
    \/ e[1] = f[1] /\ LexLess(e[2], f[2])

\* Queue.PriorityQueue.put: the queue is kept in the order its entries
\* will be handed out (smallest entry first).
QueuePut(q, e) ==
    LET k == Cardinality({i \in DOMAIN q : ~EntryLess(e, q[i])})
    IN  SubSeq(q, 1, k) \o <<e>> \o SubSeq(q, k + 1, Len(q))

\* A slip: the score itself as the priority (the lowest score comes first).
MovePriorityAscending(v) == v

\* The priority add_mask gives a move of score v.
MovePriority(v) == 0 - v

Positions(q) == {q[i][2] : i \in DOMAIN q}

\* ------------------------------------------------------------ get_moves
Directions ==
    << <<1, 0, 0>>, <<-1, 0, 0>>, <<0, 1, 0>>, <<0, -1, 0>>,
       <<0, 0, 1>>, <<0, 0, -1>> >>

Max0(x) == IF x > 0 THEN x ELSE 0
Min0(x) == IF x < 0 THEN x ELSE 0
\* np.maximum(move, 0) and np.minimum(move, 0)
Maximum0(a) == <<Max0(a[1]), Max0(a[2]), Max0(a[3])>>
Minimum0(a) == <<Min0(a[1]), Min0(a[2]), Min0(a[3])>>

\* ctr = (np.asarray(mask.shape) - 1) / 2 + 1
MovesCtr(shape) == AddV(DivV(SubV(shape, Splat(1)), Splat(2)), Splat(1))

\* plane_min = ctr - (-2 * np.maximum(move, 0) + 1) * self.MOVE_DELTA
PlaneMin(move, shape, delta) ==
    SubV(MovesCtr(shape),
         MulV(AddV(MulV(Splat(-2), Maximum0(move)), Splat(1)), delta))

\* plane_max = ctr + (+2 * np.minimum(move, 0) + 1) * self.MOVE_DELTA + 1
PlaneMax(move, shape, delta) ==
    AddV(AddV(MovesCtr(shape),
              MulV(AddV(MulV(Splat(2), Minimum0(move)), Splat(1)), delta)),
         Splat(1))

\* The indices of arr[plane_min : plane_max] for an array of that shape.
Plane(move, shape, delta) ==
    LET lo == PlaneMin(move, shape, delta)
        hi == PlaneMax(move, shape, delta)
        org == SliceOrigin(lo, shape)
        len == SliceShape(lo, hi, shape)
    IN  (org[1]..(org[1] + len[1] - 1)) \X (org[2]..(org[2] + len[2] - 1))
            \X (org[3]..(org[3] + len[3] - 1))

\* get_moves(mask): the six moves with the maximum of their plane.  arr is
\* an array of the given shape.
get_moves(arr, shape, delta) ==
    [d \in DOMAIN Directions |->
        [move |-> Directions[d],
         v |-> ArrayMax({arr[Idx(l, shape)] : l \in Plane(Directions[d], shape, delta)})]]

\* ------------------------------------------------------------- add_mask
\* A different policy: a value above 0.5 is replaced only by one that is
\* not higher.
UpdateMaskNoRaise(cur, new) ==
    IsNaN(cur) \/ (Greater(cur, Half) /\ ~Less(cur, new)) \/ Less(new, cur)

\* A slip: 0.5 itself counts as above 0.5.
UpdateMaskFromHalf(cur, new) ==
    IsNaN(cur) \/ GreaterEqual(cur, Half) \/ Less(new, cur)

\* update_mask of one voxel under bias_against_merge, and the value stored.
UpdateMask(cur, new) == IsNaN(cur) \/ Greater(cur, Half) \/ Less(new, cur)

\* A slip: the test of the flag inverted.
BlendFlagInverted(cur, new, bias) ==
    IF ~bias THEN (IF UpdateMask(cur, new) THEN new ELSE cur) ELSE new

Blend(cur, new, bias) ==
    IF bias THEN (IF UpdateMask(cur, new) THEN new ELSE cur) ELSE new

\* A slip: the bounds themselves are let through.
SkippedOffByOne(new_ctr, move_bounds) ==
    \/ \E i \in Axes : new_ctr[i] > move_bounds[i]
    \/ \E i \in Axes : new_ctr[i] < 1

\* The interior check of add_mask: the move is skipped ("continue") when
\* any(new_ctr >= move_bounds) or any(new_ctr <= 1).
Skipped(new_ctr, move_bounds) ==
    \/ \E i \in Axes : new_ctr[i] >= move_bounds[i]
    \/ \E i \in Axes : new_ctr[i] <= 1

\* One pass of "for move in new_moves" from move number d on; st holds the
\* region's mask, visited set and queue and the logs of the positions put
\* on the queue and of their scores.
RECURSIVE EnqueueMoves(_, _, _, _, _, _)
EnqueueMoves(new_moves, d, mask_pos, move_bounds, t_move, st) ==
    IF d > Len(new_moves) THEN st
    ELSE
        LET new_ctr == AddV(mask_pos, new_moves[d].move)
            v == new_moves[d].v
            next ==
                IF Skipped(new_ctr, move_bounds) THEN st
                ELSE IF new_ctr \notin st.visited /\ GreaterEqual(v, t_move)
                     THEN [st EXCEPT
                              !.visited = @ \cup {new_ctr},
                              !.queue = QueuePut(@, <<MovePriority(v), new_ctr>>),
                              !.enqueued = Append(@, new_ctr),
                              !.put_scores = Append(@, v)]
                     ELSE st
        IN  EnqueueMoves(new_moves, d + 1, mask_pos, move_bounds, t_move, next)

\* mask_origin = self.pos_to_vox(mask_pos) - (np.asarray(mask_block.shape) - 1) / 2
MaskOrigin(mask_pos, block_size) ==
    SubV(pos_to_vox(mask_pos, block_size), Margin(block_size))

\* Whether voxel v lies in the destination region of a block at origin.
InBlock(v, origin, shape) ==
    /\ origin[1] <= v[1] /\ v[1] < origin[1] + shape[1]
    /\ origin[2] <= v[2] /\ v[2] < origin[2] + shape[2]
    /\ origin[3] <= v[3] /\ v[3] < origin[3] + shape[3]

\* self.mask (an array of the given shape) after the blend of mask_block
\* (an array of shape block_size) at mask_pos.
BlendedMask(m, shape, mask_block, mask_pos, block_size, bias) ==
    LET origin == MaskOrigin(mask_pos, block_size)
    IN  [k \in DOMAIN m |->
            LET v == Coord(k, shape)
            IN  IF InBlock(v, origin, block_size)
                THEN Blend(m[k], mask_block[Idx(SubV(v, origin), block_size)], bias)
                ELSE m[k]]

\* current_mask, the view of self.mask at the block, as an array.
CurrentMask(m, shape, mask_pos, block_size) ==
    LET origin == MaskOrigin(mask_pos, block_size)
    IN  [k \in 1..Size(block_size) |->
            m[Idx(AddV(origin, Coord(k, block_size)), shape)]]

\* ------------------------------------------------------- get_next_block
\* A slip: the slice is handed out as it is, unknown markers included.
MaskBlockRaw(m, shape, block_min, block_max, v_false) ==
    LET org == SliceOrigin(block_min, shape)
        shp == SliceShape(block_min, block_max, shape)
    IN  [k \in 1..Size(shp) |-> m[Idx(AddV(org, Coord(k, shp)), shape)]]

\* The mask block handed out: a copy of the slice
\* self.mask[block_min : block_max] (numpy cuts the slice at the array's
\* ends) with NaN replaced by v_false.
MaskBlock(m, shape, block_min, block_max, v_false) ==
    LET org == SliceOrigin(block_min, shape)
        shp == SliceShape(block_min, block_max, shape)
    IN  [k \in 1..Size(shp) |->
            LET x == m[Idx(AddV(org, Coord(k, shp)), shape)]
            IN  IF IsNaN(x) THEN v_false ELSE x]

\* The assertions left out (python -O): every block shape passes.
BlockShapeUnchecked(block_shape, block_size) == TRUE

\* assert image_block.shape == tuple(CONFIG.model.block_size), and the
\* same for mask_block.
BlockShapeOk(block_shape, block_size) == block_shape = block_size

\* ------------------------------------------------------------ predictor
\* The models fill is run with: pure functions from the batch items to
\* blocks of probabilities.
Models ==
    { [kind |-> "centre", v |-> One],
      [kind |-> "uniform", v |-> One],
      [kind |-> "decay", v |-> 2] }

\* The model of a region no fill call has been made on.
NoModel == [kind |-> "none", v |-> 0]

ZeroBlock(block_size) == [k \in 1..Size(block_size) |-> 0]

\* The output block of one item of model.predict: "centre" answers 1.0 at
\* the centre voxel of the block and 0.0 elsewhere, "uniform" answers v
\* everywhere, "decay" answers everywhere the maximum of its mask input
\* lowered by v.
Predict(mdl, mask_in, block_size) ==
    CASE mdl.kind = "centre" ->
            [k \in 1..Size(block_size) |->
                IF k = Idx(Margin(block_size), block_size) THEN mdl.v ELSE 0]
      [] mdl.kind = "uniform" ->
            [k \in 1..Size(block_size) |-> mdl.v]
      [] mdl.kind = "decay" ->
            LET top == ArrayMax({mask_in[k] : k \in DOMAIN mask_in})
                out == Max0(top - mdl.v)
            IN  [k \in 1..Size(block_size) |-> out]

\* ---------------------------------------------------------------- state
\* The image shapes and configurations a region is constructed with.
Setups ==
    { [shape |-> <<7, 6, 6>>, block_size |-> <<5, 5, 5>>,
       t_move |-> 10, v_true |-> 19, v_false |-> 1],
      [shape |-> <<11, 6, 6>>, block_size |-> <<9, 5, 5>>,
       t_move |-> 17, v_true |-> 19, v_false |-> 1] }

VARIABLES
    CONFIG,                  \* CONFIG.model: block_size, t_move, v_true, v_false
    bounds,                  \* self.bounds = image.shape
    seed_pos,                \* self.seed_pos
    queue,                   \* self.queue
    visited,                 \* self.visited
    mask,                    \* self.mask
    bias_against_merge,      \* self.bias_against_merge
    move_based_on_new_mask,  \* self.move_based_on_new_mask
    pc,                      \* where fill stands
    args,                    \* the arguments of the running fill call
    moves,                   \* fill's local moves
    batch_block_data,        \* fill's local batch_block_data
    image_input,             \* fill's local image_input
    mask_input,              \* fill's local mask_input
    output,                  \* fill's local output
    ind,                     \* the index of fill's loop over the batch
    enqueued,                \* log: the positions put on the queue, in order
    put_scores,              \* log: the score each was put with (None: the seed)
    dequeued,                \* log: the positions taken from the queue, in order
    fills,                   \* log: the number of fill calls
    call_start,              \* log: Len(dequeued) when the running fill call began
    predict_calls,           \* log: the sizes of the batches given to model.predict
    returns,                 \* log: how each fill call ended, in order
    batch_start,             \* log: the region when the running iteration began
    call                     \* the caller's last call on the region and its result

region == <<CONFIG, bounds, seed_pos, queue, visited, mask,
            bias_against_merge, move_based_on_new_mask>>
frame == <<pc, args, moves, batch_block_data, image_input, mask_input, output, ind>>
logs == <<enqueued, put_scores, dequeued, fills, call_start, predict_calls>>
vars == <<region, frame, logs, returns, batch_start, call>>

MOVE_DELTA == MoveDelta(CONFIG.block_size)
move_bounds == MoveBounds(bounds, CONFIG.block_size)

\* What a call evaluates to when the def ends without a return statement.
PyNone == [type |-> "NoneType"]

\* No call has been made on the region yet.
NoCall == [op |-> "none", result |-> PyNone]

\* The region's mask, visited set and number of pending entries and the
\* number of predictor calls made, noted when an iteration of fill begins.
Snapshot(m, vis, q, calls) ==
    [mask |-> m, visited |-> vis, pending |-> Len(q), calls |-> Len(calls)]

\* DenseRegion(image, target, seed_pos) with no mask given: the fields
\* __init__ sets, for an image of the given shape (the image and the
\* target are references to the caller's arrays).
NewRegion(shape, block_size, v_true, seed) ==
    [type |-> "DenseRegion",
     image |-> [kind |-> "ref", name |-> "image"],
     target |-> [kind |-> "ref", name |-> "target"],
     bounds |-> shape,
     seed_pos |-> seed,
     queue |-> << <<None, seed>> >>,
     visited |-> {},
     mask |-> [k \in 1..Size(shape) |->
                 IF k = Idx(pos_to_vox(seed, block_size), shape)
                 THEN v_true ELSE NaN],
     bias_against_merge |-> FALSE,
     move_based_on_new_mask |-> FALSE]

\* DenseRegion.__init__(image) with the default seed and no mask given,
\* followed by the caller's choice of the two flags.
Construct(setups) ==
    \E s \in setups :
        /\ CONFIG = [block_size |-> s.block_size, t_move |-> s.t_move,
                     v_true |-> s.v_true, v_false |-> s.v_false]
        /\ bounds = s.shape
        /\ seed_pos = DefaultSeed(s.shape, s.block_size)
        /\ queue = << <<None, DefaultSeed(s.shape, s.block_size)>> >>
        /\ visited = {}
        /\ mask = [k \in 1..Size(s.shape) |->
                     IF k = Idx(pos_to_vox(DefaultSeed(s.shape, s.block_size),
                                           s.block_size), s.shape)
                     THEN s.v_true ELSE NaN]
        /\ bias_against_merge \in BOOLEAN
        /\ move_based_on_new_mask \in BOOLEAN
        /\ pc = "idle"
        /\ args = [model |-> NoModel, verbose |-> FALSE, move_batch_size |-> 1,
                   max_moves |-> None, multi_gpu_pad_kludge |-> None]
        /\ moves = 0
        /\ batch_block_data = <<>>
        /\ image_input = <<>>
        /\ mask_input = <<>>
        /\ output = <<>>
        /\ ind = 0
        /\ enqueued = <<DefaultSeed(s.shape, s.block_size)>>
        /\ put_scores = <<None>>
        /\ dequeued = <<>>
        /\ fills = 0
        /\ call_start = 0
        /\ predict_calls = <<>>
        /\ returns = <<>>
        /\ batch_start = Snapshot(mask, visited, queue, predict_calls)
        /\ call = NoCall

Init == Construct(Setups)

\* The 9x9x9 volume of the two scenarios, block_size 5 and t_move 0.5.
ScenarioSetups ==
    { [shape |-> <<9, 9, 9>>, block_size |-> <<5, 5, 5>>,
       t_move |-> 10, v_true |-> 19, v_false |-> 1] }

\* Scenario A's predictor (1.0 at the centre voxel only) and scenario B's
\* (1.0 everywhere).
ScenarioA == [kind |-> "centre", v |-> One]
ScenarioB == [kind |-> "uniform", v |-> One]

InitScenario == Construct(ScenarioSetups)

\* -------------------------------------------------------------- actions
\* def fill(self, model, verbose=False, move_batch_size=1, max_moves=None,
\*          multi_gpu_pad_kludge=None): the call, up to the loop.
FillWith(models, pads) ==
    /\ pc = "idle"
    /\ \E mdl \in models, vb \in BOOLEAN, bs \in 1..MaxBatch,
          mm \in {None} \cup (0..MaxBudget), pad \in pads :
            args' = [model |-> mdl, verbose |-> vb, move_batch_size |-> bs,
                     max_moves |-> mm, multi_gpu_pad_kludge |-> pad]
    /\ moves' = 0
    /\ batch_block_data' = <<>>
    /\ image_input' = <<>>
    /\ mask_input' = <<>>
    /\ output' = <<>>
    /\ ind' = 0
    /\ fills' = fills + 1
    /\ call_start' = Len(dequeued)
    /\ pc' = "while"
    /\ call' = [op |-> "fill", result |-> PyNone]
    /\ UNCHANGED <<region, enqueued, put_scores, dequeued, predict_calls, returns,
                   batch_start>>

Fill == FillWith(Models, {None} \cup (1..MaxPad))

\* The fill call of the scenarios: one of the two predictors, no padding.
FillScenario == FillWith({ScenarioA, ScenarioB}, {None})

\* fill is called again, with the same arguments, on a region whose last
\* fill call returned.
FillAgain ==
    /\ pc \in {"done", "stopped"}
    /\ fills < MaxFills
    /\ moves' = 0
    /\ batch_block_data' = <<>>
    /\ image_input' = <<>>
    /\ mask_input' = <<>>
    /\ output' = <<>>
    /\ ind' = 0
    /\ fills' = fills + 1
    /\ call_start' = Len(dequeued)
    /\ pc' = "while"
    /\ call' = [op |-> "fill", result |-> PyNone]
    /\ UNCHANGED <<region, args, enqueued, put_scores, dequeued, predict_calls,
                   returns, batch_start>>

\* A slip: fill returns at the head of the loop without the test of the
\* queue.
LoopExitUntested ==
    /\ pc = "while"
    /\ pc' = "done"
    /\ returns' = Append(returns, "done")
    /\ UNCHANGED <<region, args, moves, batch_block_data, image_input, mask_input,
                   output, ind, logs, batch_start, call>>

\* while not self.queue.empty(): the queue is empty, fill returns.
LoopExit ==
    /\ pc = "while"
    /\ queue = <<>>
    /\ pc' = "done"
    /\ returns' = Append(returns, "done")
    /\ UNCHANGED <<region, args, moves, batch_block_data, image_input, mask_input,
                   output, ind, logs, batch_start, call>>

\* while not self.queue.empty(): an iteration starts.
LoopEnter ==
    /\ pc = "while"
    /\ queue # <<>>
    /\ pc' = "batch"
    /\ batch_block_data' = <<>>
    /\ image_input' = <<>>
    /\ mask_input' = <<>>
    /\ output' = <<>>
    /\ ind' = 0
    /\ batch_start' = Snapshot(mask, visited, queue, predict_calls)
    /\ UNCHANGED <<region, args, moves, logs, returns, call>>

\* A slip: one block more than move_batch_size is taken.
MoreBlocksOneTooMany == Len(batch_block_data) <= args.move_batch_size /\ queue # <<>>

\* The takewhile of the batch: another block is taken while the queue is
\* not empty and fewer than move_batch_size have been.
MoreBlocks == Len(batch_block_data) < args.move_batch_size /\ queue # <<>>

\* get_next_block's image_block.shape (mask_block.shape is the same).
NextBlockShape(next_pos) ==
    LET next_vox == pos_to_vox(next_pos, CONFIG.block_size)
        block_min == SubV(next_vox, Margin(CONFIG.block_size))
        block_max == AddV(AddV(next_vox, Margin(CONFIG.block_size)), Splat(1))
    IN  SliceShape(block_min, block_max, bounds)

\* get_next_block, both assertions passing.
GetNextBlock ==
    /\ pc = "batch"
    /\ MoreBlocks
    /\ LET next_pos == Head(queue)[2]
           block_min == SubV(pos_to_vox(next_pos, CONFIG.block_size),
                             Margin(CONFIG.block_size))
           block_max == AddV(AddV(pos_to_vox(next_pos, CONFIG.block_size),
                                  Margin(CONFIG.block_size)), Splat(1))
       IN  /\ BlockShapeOk(NextBlockShape(next_pos), CONFIG.block_size)
           /\ queue' = Tail(queue)
           /\ dequeued' = Append(dequeued, next_pos)
           /\ batch_block_data' = Append(batch_block_data,
                  [image |-> [kind |-> "view", min |-> block_min],
                   mask |-> MaskBlock(mask, bounds, block_min, block_max,
                                     CONFIG.v_false),
                   position |-> next_pos])
    /\ UNCHANGED <<CONFIG, bounds, seed_pos, visited, mask, bias_against_merge,
                   move_based_on_new_mask, pc, args, moves, image_input, mask_input,
                   output, ind, enqueued, put_scores, fills, call_start, predict_calls,
                   returns, batch_start, call>>

\* get_next_block, an assertion failing: the AssertionError leaves fill.
GetNextBlockAssertionError ==
    /\ pc = "batch"
    /\ MoreBlocks
    /\ ~BlockShapeOk(NextBlockShape(Head(queue)[2]), CONFIG.block_size)
    /\ queue' = Tail(queue)
    /\ dequeued' = Append(dequeued, Head(queue)[2])
    /\ pc' = "error"
    /\ returns' = Append(returns, "AssertionError")
    /\ UNCHANGED <<CONFIG, bounds, seed_pos, visited, mask, bias_against_merge,
                   move_based_on_new_mask, args, moves, batch_block_data, image_input,
                   mask_input, output, ind, enqueued, put_scores, fills, call_start,
                   predict_calls, batch_start, call>>

\* A slip: the padding is added without the test of the remainder.
MissingSamplesAlways(n, pad) ==
    IF pad # None THEN pad - (n % pad) ELSE 0

\* missing_samples of the multi_gpu_pad_kludge, 0 when nothing is added.
MissingSamples(n, pad) ==
    IF pad # None /\ n % pad # 0 THEN pad - (n % pad) ELSE 0

\* The batch is complete: moves is counted, the inputs are concatenated
\* and padded, and model.predict is called once.
PredictBatch ==
    /\ pc = "batch"
    /\ ~MoreBlocks
    /\ LET batch_moves == Len(batch_block_data)
           total == batch_moves + MissingSamples(batch_moves, args.multi_gpu_pad_kludge)
           images == [i \in 1..total |->
                        IF i <= batch_moves THEN batch_block_data[i].image
                        ELSE [kind |-> "zeros", min |-> <<0, 0, 0>>]]
           masks == [i \in 1..total |->
                        IF i <= batch_moves THEN batch_block_data[i].mask
                        ELSE ZeroBlock(CONFIG.block_size)]
       IN  /\ moves' = IF args.verbose THEN moves + batch_moves ELSE moves
           /\ image_input' = images
           /\ mask_input' = masks
           /\ output' = [i \in 1..total |->
                            Predict(args.model, masks[i], CONFIG.block_size)]
           /\ predict_calls' = Append(predict_calls, total)
    /\ ind' = 1
    /\ pc' = "blend"
    /\ UNCHANGED <<region, args, batch_block_data, enqueued, put_scores, dequeued,
                   fills, call_start, returns, batch_start, call>>

\* A different loop: the predictor is called for each block inside the loop
\* of the blends, and a call after the first fails.
PredictRaisesInLoop ==
    /\ pc = "blend"
    /\ 1 < ind
    /\ ind <= Len(batch_block_data)
    /\ predict_calls' = Append(predict_calls, 1)
    /\ pc' = "raised"
    /\ returns' = Append(returns, "predictor error")
    /\ UNCHANGED <<region, args, moves, batch_block_data, image_input, mask_input,
                   output, ind, enqueued, put_scores, dequeued, fills, call_start,
                   batch_start, call>>

\* The batch is complete and model.predict raises: moves is counted and the
\* inputs are built as in PredictBatch, the call is made, and its
\* exception, caught nowhere in fill, ends the fill call.
PredictRaises ==
    /\ pc = "batch"
    /\ ~MoreBlocks
    /\ LET batch_moves == Len(batch_block_data)
           total == batch_moves + MissingSamples(batch_moves, args.multi_gpu_pad_kludge)
       IN  /\ moves' = IF args.verbose THEN moves + batch_moves ELSE moves
           /\ image_input' = [i \in 1..total |->
                                 IF i <= batch_moves THEN batch_block_data[i].image
                                 ELSE [kind |-> "zeros", min |-> <<0, 0, 0>>]]
           /\ mask_input' = [i \in 1..total |->
                                IF i <= batch_moves THEN batch_block_data[i].mask
                                ELSE ZeroBlock(CONFIG.block_size)]
           /\ predict_calls' = Append(predict_calls, total)
    /\ pc' = "raised"
    /\ returns' = Append(returns, "predictor error")
    /\ UNCHANGED <<region, args, batch_block_data, output, ind, enqueued, put_scores,
                   dequeued, fills, call_start, batch_start, call>>

\* add_mask(mask_block, mask_pos) on the region: the new mask, visited set,
\* queue and log.
add_mask(mask_block, mask_pos) ==
    LET blended == BlendedMask(mask, bounds, mask_block, mask_pos, CONFIG.block_size,
                               bias_against_merge)
        new_moves ==
            IF move_based_on_new_mask
            THEN get_moves(mask_block, CONFIG.block_size, MOVE_DELTA)
            ELSE get_moves(CurrentMask(blended, bounds, mask_pos, CONFIG.block_size),
                           CONFIG.block_size, MOVE_DELTA)
    IN  EnqueueMoves(new_moves, 1, mask_pos, move_bounds, CONFIG.t_move,
                     [mask |-> blended, visited |-> visited, queue |-> queue,
                      enqueued |-> enqueued, put_scores |-> put_scores])

\* for ind, block_data in enumerate(batch_block_data): one add_mask.
AddMask ==
    /\ pc = "blend"
    /\ ind <= Len(batch_block_data)
    /\ \E r \in {add_mask(output[ind], batch_block_data[ind].position)} :
           /\ mask' = r.mask
           /\ visited' = r.visited
           /\ queue' = r.queue
           /\ enqueued' = r.enqueued
           /\ put_scores' = r.put_scores
    /\ ind' = ind + 1
    /\ UNCHANGED <<CONFIG, bounds, seed_pos, bias_against_merge, move_based_on_new_mask,
                   pc, args, moves, batch_block_data, image_input, mask_input, output,
                   dequeued, fills, call_start, predict_calls, returns, batch_start,
                   call>>

\* if max_moves is not None and moves > max_moves
OverBudget == args.max_moves # None /\ moves > args.max_moves

\* The batch is blended and the budget is exceeded: break.
BudgetBreak ==
    /\ pc = "blend"
    /\ ind > Len(batch_block_data)
    /\ OverBudget
    /\ pc' = "stopped"
    /\ returns' = Append(returns, "break")
    /\ UNCHANGED <<region, args, moves, batch_block_data, image_input, mask_input,
                   output, ind, logs, batch_start, call>>

\* The batch is blended and the budget is not exceeded: the loop goes on.
NextIteration ==
    /\ pc = "blend"
    /\ ind > Len(batch_block_data)
    /\ ~OverBudget
    /\ pc' = "while"
    /\ UNCHANGED <<region, args, moves, batch_block_data, image_input, mask_input,
                   output, ind, logs, returns, batch_start, call>>

\* unfilled_copy, called between fill calls: copy is built by the
\* constructor and given the two flags; the def ends there, without a
\* return statement, so the call evaluates to None.
UnfilledCopy ==
    /\ pc \in {"idle", "done", "stopped", "error", "raised"}
    /\ call.op # "unfilled_copy"
    /\ LET copy == [NewRegion(bounds, CONFIG.block_size, CONFIG.v_true, seed_pos)
                       EXCEPT !.bias_against_merge = bias_against_merge,
                              !.move_based_on_new_mask = move_based_on_new_mask]
       IN  call' = [op |-> "unfilled_copy", copy |-> copy, result |-> PyNone]
    /\ UNCHANGED <<region, frame, logs, returns, batch_start>>

Next ==
    \/ Fill
    \/ FillAgain
    \/ UnfilledCopy
    \/ LoopExit
    \/ LoopEnter
    \/ GetNextBlock
    \/ GetNextBlockAssertionError
    \/ PredictBatch
    \/ PredictRaises
    \/ AddMask
    \/ BudgetBreak
    \/ NextIteration

Spec == Init /\ [][Next]_vars

NextScenario ==
    \/ FillScenario
    \/ FillAgain
    \/ UnfilledCopy
    \/ LoopExit
    \/ LoopEnter
    \/ GetNextBlock
    \/ GetNextBlockAssertionError
    \/ PredictBatch
    \/ PredictRaises
    \/ AddMask
    \/ BudgetBreak
    \/ NextIteration

SpecScenario == InitScenario /\ [][NextScenario]_vars

\* Regions whose MOVE_DELTA differs from axis to axis: (1, 2, 3) and (4, 1, 2).
CoordSetups ==
    { [shape |-> <<7, 6, 6>>, block_size |-> <<5, 9, 13>>,
       t_move |-> 10, v_true |-> 19, v_false |-> 1],
      [shape |-> <<6, 7, 6>>, block_size |-> <<17, 5, 9>>,
       t_move |-> 10, v_true |-> 19, v_false |-> 1] }

InitCoord == Construct(CoordSetups)

\* The caller's first call on the region is vox_to_pos, with a voxel of the
\* volume (or, as __init__ does, with the volume's shape).
VoxToPos ==
    /\ pc = "idle"
    /\ call = NoCall
    /\ \E vox \in Box(bounds) \cup {bounds} :
          call' = [op |-> "vox_to_pos", arg |-> vox,
                   result |-> vox_to_pos(vox, CONFIG.block_size)]
    /\ UNCHANGED <<region, frame, logs, returns, batch_start>>

\* The caller's first call on the region is pos_to_vox, with a lattice
\* position.
PosToVox ==
    /\ pc = "idle"
    /\ call = NoCall
    /\ \E pos \in ((0 - MaxPos)..MaxPos) \X ((0 - MaxPos)..MaxPos)
                      \X ((0 - MaxPos)..MaxPos) :
          call' = [op |-> "pos_to_vox", arg |-> pos,
                   result |-> pos_to_vox(pos, CONFIG.block_size)]
    /\ UNCHANGED <<region, frame, logs, returns, batch_start>>

NextCoord ==
    \/ VoxToPos
    \/ PosToVox

SpecCoord == InitCoord /\ [][NextCoord]_vars

\* add_mask called directly on a region (as fill_animation does), with
\* bias_against_merge set: a 6x6x6 image, whose eight positions 2..3 per
\* axis have their block inside the volume, and blocks holding one value
\* throughout, the unknown marker among the values.
BlendSetups ==
    { [shape |-> <<6, 6, 6>>, block_size |-> <<5, 5, 5>>,
       t_move |-> 10, v_true |-> 19, v_false |-> 1] }

BlendValues == {NaN, 2, Half, 16}

BlendPositions ==
    {p \in (2..3) \X (2..3) \X (2..3) :
        BlockShapeOk(NextBlockShape(p), CONFIG.block_size)}

InitBlend == Construct(BlendSetups) /\ bias_against_merge

\* The number of add_mask calls the caller has made.
CallsMade == IF call.op = "add_mask" THEN call.n ELSE 0

CallAddMask ==
    /\ pc = "idle"
    /\ CallsMade < MaxCalls
    /\ \E val \in BlendValues, mask_pos \in BlendPositions :
          /\ \E r \in {add_mask([k \in 1..Size(CONFIG.block_size) |-> val], mask_pos)} :
                /\ mask' = r.mask
                /\ visited' = r.visited
                /\ queue' = r.queue
                /\ enqueued' = r.enqueued
                /\ put_scores' = r.put_scores
          /\ call' = [op |-> "add_mask", val |-> val, mask_pos |-> mask_pos,
                      n |-> CallsMade + 1, result |-> PyNone]
    /\ UNCHANGED <<CONFIG, bounds, seed_pos, bias_against_merge, move_based_on_new_mask,
                   frame, dequeued, fills, call_start, predict_calls, returns,
                   batch_start>>

NextBlend == CallAddMask

SpecBlend == InitBlend /\ [][NextBlend]_vars

\* ------------------------------------------------------------ properties
Range(q) == {q[i] : i \in DOMAIN q}
NoDuplicates(q) == \A i, j \in DOMAIN q : i # j => q[i] # q[j]
Last(q) == q[Len(q)]

\* The number of positions the running fill call has dequeued.
Processed == Len(dequeued) - call_start

\* The step is one add_mask call (of output[ind] at the position below).
AddMaskStep == pc = "blend" /\ ind' = ind + 1
BlendPos == batch_block_data[ind].position

\* 1 < p < move_bounds on every axis.
StrictlyInterior(p) == \A i \in Axes : 1 < p[i] /\ p[i] < move_bounds[i]

\* The block [p*MOVE_DELTA - margin, p*MOVE_DELTA + margin] lies in the volume.
BlockInside(p) ==
    \A i \in Axes :
        /\ pos_to_vox(p, CONFIG.block_size)[i] - Margin(CONFIG.block_size)[i] >= 0
        /\ pos_to_vox(p, CONFIG.block_size)[i] + Margin(CONFIG.block_size)[i]
              <= bounds[i] - 1

\* C1: no position is put on the queue more than once, the seed entry of
\* the constructor counted, and so none is dequeued more than once.
C1_NoPositionEnqueuedTwice == NoDuplicates(enqueued) /\ NoDuplicates(dequeued)

C3_InteriorBlockInside ==
    /\ \A i \in 2..Len(enqueued) : BlockInside(enqueued[i])
    /\ pc # "error"

\* C4: a fill call without a move budget ends with the frontier empty.
C4_FillDrainsFrontier ==
    (args.max_moves = None /\ pc \in {"done", "stopped", "error"}) => queue = <<>>

\* C5: with a move budget, no batch is started once the number of
\* positions the call has dequeued exceeds max_moves.
C5_StopsOverBudget ==
    (args.max_moves # None /\ pc = "batch" /\ batch_block_data = <<>>)
        => Processed <= args.max_moves

\* ceil(b / n) * n
PaddedSize(b, n) == ((b + n - 1) \div n) * n

\* C6: the predictor call of a batch of B blocks gets ceil(B/N)*N items (B
\* without a divisor), the first B the blocks of the batch and the rest
\* zero-filled, and add_mask is applied to the first B outputs only.
C6_PaddedBatch ==
    pc = "blend" =>
        LET B == Len(batch_block_data)
            N == args.multi_gpu_pad_kludge
            want == IF N = None THEN B ELSE PaddedSize(B, N)
        IN  /\ B >= 1
            /\ Len(image_input) = want
            /\ Len(mask_input) = want
            /\ Len(output) = want
            /\ Last(predict_calls) = want
            /\ \A i \in 1..B :
                  /\ image_input[i] = batch_block_data[i].image
                  /\ mask_input[i] = batch_block_data[i].mask
            /\ \A i \in (B + 1)..want :
                  /\ image_input[i].kind = "zeros"
                  /\ \A k \in DOMAIN mask_input[i] : mask_input[i][k] = 0
            /\ ind <= B + 1

\* A padded batch has been blended: every real output went through
\* add_mask and the outputs of the padding items are left.
C6_Witness ==
    /\ pc = "blend"
    /\ args.multi_gpu_pad_kludge # None
    /\ Len(output) > Len(batch_block_data)
    /\ ind = Len(batch_block_data) + 1

\* The mask a region is constructed with: the seed voxel at v_true, every
\* other voxel unknown.
SeedOnlyMask ==
    [k \in 1..Size(bounds) |->
        IF k = Idx(pos_to_vox(seed_pos, CONFIG.block_size), bounds)
        THEN CONFIG.v_true ELSE NaN]

\* C7: in scenario A fill dequeues the seed only, add_mask puts nothing on
\* the queue, and the mask fill returns with has the seed voxel at v_true
\* and every other voxel unknown.
C7_ScenarioA ==
    args.model = ScenarioA =>
        /\ Len(dequeued) <= 1
        /\ Len(enqueued) = 1
        /\ pc = "done" => mask = SeedOnlyMask

\* The interior lattice positions, and the voxels the blocks around them cover.
InteriorPositions ==
    {p \in (2..(move_bounds[1] - 1)) \X (2..(move_bounds[2] - 1))
            \X (2..(move_bounds[3] - 1)) : StrictlyInterior(p)}

Covered(k) ==
    \E p \in InteriorPositions :
        InBlock(Coord(k, bounds), MaskOrigin(p, CONFIG.block_size), CONFIG.block_size)

\* C8: in scenario B no position is dequeued twice and no assertion
\* fails; a fill call without a budget returns with the frontier empty,
\* every interior position dequeued, 1.0 at every voxel a block covers and
\* unknown elsewhere.
C8_ScenarioB ==
    (args.model = ScenarioB /\ args.max_moves = None) =>
        /\ NoDuplicates(dequeued)
        /\ pc # "error"
        /\ pc = "done" =>
              /\ queue = <<>>
              /\ Range(dequeued) = InteriorPositions
              /\ \A k \in DOMAIN mask :
                    mask[k] = IF Covered(k) THEN One ELSE NaN

\* The positions the step has put on the queue.
NewlyPut == {enqueued'[i] : i \in (Len(enqueued) + 1)..Len(enqueued')}

\* The score add_mask gives move number d in the step: the maximum of the
\* move's plane in the predicted block or in the blended region.
StepScore(d) ==
    get_moves(IF move_based_on_new_mask THEN output[ind]
              ELSE CurrentMask(mask', bounds, BlendPos, CONFIG.block_size),
              CONFIG.block_size, MOVE_DELTA)[d].v

\* C9: add_mask puts the neighbour in a direction on the queue (and in the
\* visited set) if and only if the neighbour is strictly interior, was not
\* in the visited set and the direction's score is at least t_move; every
\* other neighbour leaves the queue and the visited set as they were.
C9_EnqueueIff ==
    [][AddMaskStep =>
          /\ \A d \in DOMAIN Directions :
                LET n == AddV(BlendPos, Directions[d])
                    wanted == /\ StrictlyInterior(n)
                              /\ n \notin visited
                              /\ GreaterEqual(StepScore(d), CONFIG.t_move)
                IN  /\ (n \in NewlyPut) <=> wanted
                    /\ wanted => /\ <<0 - StepScore(d), n>> \in Range(queue')
                                 /\ n \in visited'
                    /\ (~wanted) => /\ (n \in visited' <=> n \in visited)
                                    /\ (n \in Positions(queue') <=> n \in Positions(queue))
          /\ visited' = visited \cup NewlyPut
          /\ Len(queue') = Len(queue) + Cardinality(NewlyPut)
          /\ Len(enqueued') = Len(enqueued) + Cardinality(NewlyPut)
          /\ Len(put_scores') = Len(enqueued')]_vars

\* An add_mask call has just put one neighbour of its position on the
\* queue and discarded another that is not strictly interior.
C9_Witness ==
    /\ pc = "blend"
    /\ ind > 1
    /\ LET pos == batch_block_data[ind - 1].position
       IN  /\ \E d \in DOMAIN Directions : ~StrictlyInterior(AddV(pos, Directions[d]))
           /\ \E d \in DOMAIN Directions : Last(enqueued) = AddV(pos, Directions[d])
           /\ \A d \in DOMAIN Directions :
                 (~StrictlyInterior(AddV(pos, Directions[d])))
                     => /\ AddV(pos, Directions[d]) \notin visited
                        /\ AddV(pos, Directions[d]) \notin Positions(queue)

\* The score the pending entry of position p was put on the queue with
\* (its latest put); the seed entry of the constructor, put without a
\* score, ranks above every score.
PendingScore(p) ==
    LET k == CHOOSE i \in DOMAIN enqueued :
                 /\ enqueued[i] = p
                 /\ \A j \in DOMAIN enqueued : enqueued[j] = p => j <= i
    IN  IF put_scores[k] = None THEN One + 1 ELSE put_scores[k]

\* The queue without its entry number i.
Without(q, i) == SubSeq(q, 1, i - 1) \o SubSeq(q, i + 1, Len(q))

\* C10: every dequeue takes an entry whose score is maximal among the
\* pending ones, and the first position dequeued is the seed.
C10_HighestScoreFirst ==
    [][Len(dequeued') = Len(dequeued) + 1 =>
          /\ \E i \in DOMAIN queue :
                /\ queue[i][2] = Last(dequeued')
                /\ queue' = Without(queue, i)
                /\ \A j \in DOMAIN queue :
                      PendingScore(queue[j][2]) <= PendingScore(queue[i][2])
          /\ dequeued'[1] = seed_pos]_vars

\* A block has just been dequeued while entries of different scores were
\* pending, and the seed has been dequeued before.
C10_Witness ==
    /\ pc = "batch"
    /\ Len(batch_block_data) >= 1
    /\ Len(dequeued) >= 2
    /\ dequeued[1] = seed_pos
    /\ \E i, j \in DOMAIN queue :
          PendingScore(queue[i][2]) # PendingScore(queue[j][2])

\* C11: unfilled_copy hands its caller a new region with the original's
\* image, target, seed position and flags and with the mask, the frontier
\* and the visited set of a freshly constructed region.
C11_UnfilledCopyYieldsRegion ==
    call.op = "unfilled_copy" =>
        call.result =
            [NewRegion(bounds, CONFIG.block_size, CONFIG.v_true, seed_pos)
                EXCEPT !.bias_against_merge = bias_against_merge,
                       !.move_based_on_new_mask = move_based_on_new_mask]

\* C12: whenever fill is about to call add_mask, the destination region
\* (the predicted block's extent around position * MOVE_DELTA) has no
\* index below 0 and none at or above the volume shape, on every axis.
C12_BlendInsideVolume ==
    (pc = "blend" /\ ind <= Len(batch_block_data)) =>
        LET origin == MaskOrigin(BlendPos, CONFIG.block_size)
        IN  /\ Len(output[ind]) = Size(CONFIG.block_size)
            /\ \A i \in Axes :
                  /\ origin[i] >= 0
                  /\ origin[i] + CONFIG.block_size[i] <= bounds[i]

\* add_mask has just written a block that reaches the last index of the
\* volume on some axis: the voxel in the block's far corner is known.
C12_Witness ==
    /\ pc = "blend"
    /\ ind > 1
    /\ LET origin == MaskOrigin(batch_block_data[ind - 1].position, CONFIG.block_size)
           far == SubV(AddV(origin, CONFIG.block_size), Splat(1))
       IN  /\ \E i \in Axes : far[i] = bounds[i] - 1
           /\ ~IsNaN(mask[Idx(far, bounds)])

\* C13: once a fill call has returned because the frontier is empty, no
\* step (of any further fill call) calls the predictor or changes the
\* mask, the frontier or the visited set.
C13_DoneIsTerminal ==
    [][("done" \in Range(returns)) =>
          UNCHANGED <<mask, queue, visited, predict_calls, dequeued>>]_vars

\* A second fill call has returned on a region that a first call, which
\* made predictor calls, had left with an empty frontier.
C13_Witness ==
    /\ pc = "done"
    /\ fills = 2
    /\ returns = <<"done", "done">>
    /\ Len(predict_calls) >= 2
    /\ queue = <<>>

\* C14: for a voxel v of the volume, pos_to_vox(vox_to_pos(v)) is the
\* lattice point floor(v / MOVE_DELTA) * MOVE_DELTA: at most v and less
\* than MOVE_DELTA below it on each axis; and for a position p,
\* vox_to_pos(pos_to_vox(p)) = p.
C14_RoundTrip ==
    /\ call.op = "vox_to_pos" =>
          LET back == pos_to_vox(call.result, CONFIG.block_size)
          IN  \A i \in Axes :
                  /\ MOVE_DELTA[i] > 0
                  /\ back[i] <= call.arg[i]
                  /\ call.arg[i] - back[i] < MOVE_DELTA[i]
                  /\ back[i] = (call.arg[i] \div MOVE_DELTA[i]) * MOVE_DELTA[i]
    /\ call.op = "pos_to_vox" =>
          vox_to_pos(call.result, CONFIG.block_size) = call.arg

\* vox_to_pos has been called with a voxel that is no lattice point on any
\* axis, with a MOVE_DELTA above 1 on some axis.
C14_Witness ==
    /\ call.op = "vox_to_pos"
    /\ call.arg \in Box(bounds)
    /\ \E i \in Axes : MOVE_DELTA[i] > 1 /\ call.arg[i] % MOVE_DELTA[i] # 0
    /\ pos_to_vox(call.result, CONFIG.block_size) # call.arg

Min(a, b) == IF a < b THEN a ELSE b

\* C15: when the blends of an iteration begin, exactly min(move_batch_size,
\* entries pending at the start of the iteration) positions have been
\* dequeued in it and the predictor has been called exactly once; each
\* add_mask call then blends the next output at the next position in the
\* order of the dequeues; and no step taken during the blends dequeues a
\* position or calls the predictor.
C15_BatchThenBlend ==
    [][/\ (pc = "batch" /\ pc' = "blend") =>
            LET n == Len(batch_block_data')
            IN  /\ n = Min(args'.move_batch_size, batch_start'.pending)
                /\ Len(queue') = batch_start'.pending - n
                /\ \A i \in 1..n :
                      batch_block_data'[i].position = dequeued'[Len(dequeued') - n + i]
                /\ Len(predict_calls') = batch_start'.calls + 1
                /\ mask' = batch_start'.mask
                /\ ind' = 1
       /\ pc = "blend" =>
            /\ dequeued' = dequeued
            /\ predict_calls' = predict_calls
            /\ batch_block_data' = batch_block_data
            /\ output' = output
            /\ (mask' # mask \/ queue' # queue \/ visited' # visited \/ ind' # ind) =>
                  /\ ind <= Len(batch_block_data)
                  /\ ind' = ind + 1
                  /\ mask' = BlendedMask(mask, bounds, output[ind], BlendPos,
                                         CONFIG.block_size, bias_against_merge)
                  /\ \A i \in DOMAIN batch_block_data :
                        batch_block_data[i].position \notin NewlyPut
                            \/ batch_block_data[i].position \in Positions(queue')]_vars

\* A full batch of two positions has been blended, a third entry that was
\* pending when the iteration began is still on the queue, and the blends
\* have put new neighbours on it.
C15_Witness ==
    /\ pc = "blend"
    /\ args.move_batch_size = 2
    /\ Len(batch_block_data) = 2
    /\ ind = 3
    /\ batch_start.pending > 2
    /\ Cardinality(visited) > Cardinality(batch_start.visited)
    /\ Len(queue) > batch_start.pending - 2

\* The step is one get_next_block call that returns a block.
GetNextBlockStep == Len(batch_block_data') = Len(batch_block_data) + 1

\* C16: the mask block get_next_block returns holds, at every voxel, the
\* region's value if that is known and v_false if it is unknown, so no
\* unknown marker; the same blocks are what the predictor is given; and
\* the call leaves the region's mask as it was.
C16_NoUnknownToPredictor ==
    [][/\ GetNextBlockStep =>
            LET b == Last(batch_block_data')
                origin == MaskOrigin(b.position, CONFIG.block_size)
            IN  /\ mask' = mask
                /\ Len(b.mask) = Size(CONFIG.block_size)
                /\ \A k \in DOMAIN b.mask :
                      LET x == mask[Idx(AddV(origin, Coord(k, CONFIG.block_size)), bounds)]
                      IN  /\ ~IsNaN(b.mask[k])
                          /\ b.mask[k] = IF IsNaN(x) THEN CONFIG.v_false ELSE x
       /\ (pc = "batch" /\ pc' = "blend") =>
            \A i \in DOMAIN mask_input' :
                /\ i <= Len(batch_block_data) => mask_input'[i] = batch_block_data[i].mask
                /\ \A k \in DOMAIN mask_input'[i] : ~IsNaN(mask_input'[i][k])]_vars

\* A block has been extracted that holds v_false where the region's mask
\* is unknown (and still is) and a known value of the region elsewhere.
C16_Witness ==
    /\ pc = "batch"
    /\ Len(batch_block_data) >= 1
    /\ LET b == Last(batch_block_data)
           origin == MaskOrigin(b.position, CONFIG.block_size)
       IN  /\ \E k \in DOMAIN b.mask :
                 /\ IsNaN(mask[Idx(AddV(origin, Coord(k, CONFIG.block_size)), bounds)])
                 /\ b.mask[k] = CONFIG.v_false
           /\ \E k \in DOMAIN b.mask :
                 /\ b.mask[k] # CONFIG.v_false
                 /\ b.mask[k] = mask[Idx(AddV(origin, Coord(k, CONFIG.block_size)), bounds)]

\* The fill call has been ended by a failure of the predictor: no add_mask
\* call of the failing batch was made, the failing call was the last
\* predictor call, and the mask and the visited set are those the
\* iteration began with.
AbortedByPredictor ==
    pc = "raised" =>
        /\ Last(returns) = "predictor error"
        /\ ind = 0
        /\ output = <<>>
        /\ Len(predict_calls) = batch_start.calls + 1
        /\ mask = batch_start.mask
        /\ visited = batch_start.visited

\* C17: a failing predictor call ends the fill call at once, with the mask
\* and the visited set as they were before the batch was dequeued and no
\* add_mask call of the batch made; after it the predictor is not called
\* and the region does not change.
C17_PredictorFailureAborts ==
    [][/\ AbortedByPredictor'
       /\ pc = "raised" =>
             /\ pc' = "raised"
             /\ UNCHANGED <<mask, visited, queue, predict_calls, returns>>]_vars

\* The predictor has failed on a batch of two blocks, in an iteration
\* after the first: the mask holds the blends of the earlier batches.
C17_Witness ==
    /\ pc = "raised"
    /\ Len(batch_block_data) = 2
    /\ Len(predict_calls) >= 2
    /\ Len(dequeued) > 2
    /\ mask = batch_start.mask
    /\ mask # SeedOnlyMask

\* C18: when a verbose fill call with a budget is stopped by the budget,
\* it has processed at most max_moves + move_batch_size - 1 positions.
C18_OvershootBelowBatch ==
    (pc = "stopped" /\ args.verbose /\ args.max_moves # None) =>
        Processed <= args.max_moves + args.move_batch_size - 1

\* C19: with bias_against_merge, a voxel holding a known value of at most
\* 0.5 holds after any add_mask call a known value that is not higher;
\* if the call changed it, the new value is the block's value there and
\* is strictly lower.
C19_AtMostHalfNeverRaised ==
    [][bias_against_merge =>
          \A k \in DOMAIN mask :
              ((~IsNaN(mask[k])) /\ mask[k] <= Half) =>
                  /\ ~IsNaN(mask'[k])
                  /\ mask'[k] <= mask[k]
                  /\ mask'[k] # mask[k] =>
                        /\ call'.op = "add_mask"
                        /\ mask'[k] = call'.val
                        /\ Less(call'.val, mask[k])]_vars

\* Under bias_against_merge a block of a value above 0.5, or of the
\* unknown marker, has just been blended over a voxel that held exactly
\* 0.5, and the voxel still holds 0.5.
C19_Witness ==
    /\ bias_against_merge
    /\ call.op = "add_mask"
    /\ call.n >= 2
    /\ call.val \in {NaN, 16}
    /\ \E k \in DOMAIN mask :
          /\ InBlock(Coord(k, bounds), MaskOrigin(call.mask_pos, CONFIG.block_size),
                     CONFIG.block_size)
          /\ mask[k] = Half

\* What the loop over the moves of add_mask leaves, started from the
\* blended mask with the given moves.
MovesOutcome(new_moves) ==
    EnqueueMoves(new_moves, 1, BlendPos, move_bounds, CONFIG.t_move,
                 [mask |-> mask', visited |-> visited, queue |-> queue,
                  enqueued |-> enqueued, put_scores |-> put_scores])

=============================================================================
